---------------------------- MODULE Spec2Model ----------------------------
(***************************************************************************)
(* A model of dmarc_rua_dashboard.py: the mailbox walk that extracts DMARC *)
(* aggregate reports, the report parser, the date filter and its session   *)
(* state, the pass/fail statistics and the provider classifier.            *)
(*                                                                         *)
(* Text is modelled by TLA+ strings; a missing XML node or a Python None   *)
(* in a text position is the empty tuple <<>> and a present text t is the  *)
(* one-element tuple <<t>>.                                                *)
(***************************************************************************)
EXTENDS Integers, Sequences, FiniteSets, TLC

(***************************************************************************)
(* Bounds of the model.                                                    *)
(***************************************************************************)
MaxNodes == 3
MaxMsgs == 2
MaxParts == 2
MaxRows == 2
MaxTableRows == 2
MaxDocs == 2
MaxDay == 2

(***************************************************************************)
(* Python str helpers.                                                     *)
(***************************************************************************)
Char(s, i) == SubSeq(s, i, i)

UpperAlpha == "ABCDEFGHIJKLMNOPQRSTUVWXYZ"
LowerAlpha == "abcdefghijklmnopqrstuvwxyz"
Digits == "0123456789"

IsSpace(c) == c \in {" ", "\t", "\n", "\r"}

RECURSIVE LStrip(_)
LStrip(s) ==
    IF s = "" THEN ""
    ELSE IF IsSpace(Char(s, 1)) THEN LStrip(SubSeq(s, 2, Len(s))) ELSE s

RECURSIVE RStrip(_)
RStrip(s) ==
    IF s = "" THEN ""
    ELSE IF IsSpace(Char(s, Len(s))) THEN RStrip(SubSeq(s, 1, Len(s) - 1)) ELSE s

\* str.strip()
Strip(s) == RStrip(LStrip(s))

\* The lower-case letter of each upper-case letter.
LowerOf == [c \in {Char(UpperAlpha, i) : i \in 1..26} |->
              Char(LowerAlpha, CHOOSE i \in 1..26 : Char(UpperAlpha, i) = c)]

LowerChar(c) == IF c \in DOMAIN LowerOf THEN LowerOf[c] ELSE c

\* str.lower()
RECURSIVE Lower(_)
Lower(s) ==
    IF s = "" THEN "" ELSE LowerChar(Char(s, 1)) \o Lower(SubSeq(s, 2, Len(s)))

\* key in s
Contains(key, s) ==
    \E i \in 1..(Len(s) - Len(key) + 1) : SubSeq(s, i, i + Len(key) - 1) = key

\* s.endswith(suffix)
EndsWith(s, suffix) ==
    /\ Len(s) >= Len(suffix)
    /\ SubSeq(s, Len(s) - Len(suffix) + 1, Len(s)) = suffix

\* The positions of character c in s.
Positions(c, s) == {i \in 1..Len(s) : Char(s, i) = c}

Min(S) == CHOOSE x \in S : \A y \in S : x <= y
Max(S) == CHOOSE x \in S : \A y \in S : x >= y

\* s.split(c, 1)[-1]: the text after the first c, or s when there is none.
SplitFirstLast(s, c) ==
    IF Positions(c, s) = {} THEN s
    ELSE SubSeq(s, Min(Positions(c, s)) + 1, Len(s))

\* s.rsplit(c, 1)[0]: the text before the last c, or s when there is none.
RSplitLastFirst(s, c) ==
    IF Positions(c, s) = {} THEN s
    ELSE SubSeq(s, 1, Max(Positions(c, s)) - 1)

Some(s) == <<s>>

\* x or "" for an optional text.
OrEmpty(x) == IF x = <<>> THEN "" ELSE x[1]

safe_txt(x) == Strip(OrEmpty(x))

lower_or_empty(x) == Lower(safe_txt(x))

domain_part(addr_or_domain) ==
    LET s == lower_or_empty(addr_or_domain)
    IN  IF Contains("@", s) THEN SplitFirstLast(s, "@") ELSE s

\* node.findtext(tag, default=d): the default when the child is missing.
FindText(child, d) == IF child = <<>> THEN d ELSE child[1]

\* The value of each decimal digit.
DigitValue == [c \in {Char(Digits, i) : i \in 1..10} |->
                 (CHOOSE i \in 1..10 : Char(Digits, i) = c) - 1]

IsDigits(s) ==
    /\ s # ""
    /\ \A i \in 1..Len(s) : Char(s, i) \in DOMAIN DigitValue

RECURSIVE DigitsValue(_)
DigitsValue(s) ==
    IF s = "" THEN 0
    ELSE 10 * DigitsValue(SubSeq(s, 1, Len(s) - 1)) + DigitValue[Char(s, Len(s))]

\* Whether int(s) succeeds: surrounding blanks, an optional sign, digits.
IntParses(s) ==
    LET t == Strip(s)
    IN  IF t # "" /\ Char(t, 1) \in {"+", "-"}
        THEN IsDigits(SubSeq(t, 2, Len(t)))
        ELSE IsDigits(t)

\* int(s), where it succeeds.
IntOf(s) ==
    LET t == Strip(s)
    IN  IF Char(t, 1) = "-" THEN 0 - DigitsValue(SubSeq(t, 2, Len(t)))
        ELSE IF Char(t, 1) = "+" THEN DigitsValue(SubSeq(t, 2, Len(t)))
        ELSE DigitsValue(t)

(***************************************************************************)
(* parse_dmarc_xml.  A file's content is [t |-> "xml", doc |-> d] for a    *)
(* well-formed XML tree d, and anything else (t = "junk", "gz", "zip",     *)
(* "empty") makes ET.parse raise.  A tree d has report_metadata and        *)
(* policy_published (optional nodes: <<>> or <<node>>) and records, the    *)
(* sequence of its record nodes.                                           *)
(***************************************************************************)

\* Lines 65-112: one record node with the document's fields; raised is TRUE
\* when int() raises on the count.
ParseRecord(d, rec, path) ==
    LET report_metadata == d.report_metadata
        org_name == IF report_metadata # <<>>
                    THEN safe_txt(<<FindText(report_metadata[1].org_name, "")>>) ELSE ""
        report_id == IF report_metadata # <<>>
                     THEN safe_txt(<<FindText(report_metadata[1].report_id, "")>>) ELSE ""
        date_range == IF report_metadata # <<>> THEN report_metadata[1].date_range ELSE <<>>
        begin == IF date_range # <<>> THEN safe_txt(<<FindText(date_range[1].begin, "")>>) ELSE ""
        end == IF date_range # <<>> THEN safe_txt(<<FindText(date_range[1].end, "")>>) ELSE ""
        policy_published == d.policy_published
        policy_domain == IF policy_published # <<>>
                         THEN safe_txt(<<FindText(policy_published[1].domain, "")>>) ELSE ""
        r == rec.row
        source_ip == IF r # <<>> THEN safe_txt(<<FindText(r[1].source_ip, "")>>) ELSE ""
        countText == IF r # <<>> THEN safe_txt(<<FindText(r[1].count, "0")>>) ELSE "0"
        pe == IF r # <<>> THEN r[1].policy_evaluated ELSE <<>>
        disposition == IF pe # <<>> THEN safe_txt(<<FindText(pe[1].disposition, "")>>) ELSE ""
        identifiers == rec.identifiers
        header_from == IF identifiers # <<>>
                       THEN safe_txt(<<FindText(identifiers[1].header_from, "")>>) ELSE ""
        envelope_from == IF identifiers # <<>>
                         THEN safe_txt(<<FindText(identifiers[1].envelope_from, "")>>) ELSE ""
        ar == rec.auth_results
        dkim_domain == IF ar # <<>> /\ ar[1].dkim # <<>>
                       THEN safe_txt(<<FindText(ar[1].dkim[1].domain, "")>>) ELSE ""
        spf_domain == IF ar # <<>> /\ ar[1].spf # <<>>
                      THEN safe_txt(<<FindText(ar[1].spf[1].domain, "")>>) ELSE ""
    IN  IF ~IntParses(countText)
        THEN [raised |-> TRUE]
        ELSE [raised |-> FALSE,
              rec |-> [reporting_domain |-> org_name,
                       report_id |-> report_id,
                       date_begin |-> begin,
                       date_end |-> end,
                       domain |-> policy_domain,
                       source_ip |-> source_ip,
                       count |-> IntOf(countText),
                       disposition |-> disposition,
                       header_from |-> header_from,
                       envelope_from |-> envelope_from,
                       auth_dkim_domain |-> dkim_domain,
                       auth_spf_domain |-> spf_domain,
                       xml_path |-> path]]

\* Lines 76-114: the loop over root.findall("record"); an exception in the
\* body leaves the loop and the function returns what out holds by then.
RECURSIVE ParseLoop(_, _, _, _)
ParseLoop(d, k, path, acc) ==
    IF k > Len(d.records) THEN acc
    ELSE LET r == ParseRecord(d, d.records[k], path)
         IN  IF r.raised THEN acc
             ELSE ParseLoop(d, k + 1, path, Append(acc, r.rec))

\* Lines 60-115: ET.parse raises on anything that is not well-formed XML.
parse_dmarc_xml(path, content) ==
    IF content.t # "xml" THEN <<>>
    ELSE ParseLoop(content.doc, 1, path, <<>>)

(***************************************************************************)
(* Timestamps.  A formatted "%Y-%m-%d %H:%M:%S" text is modelled by the    *)
(* pair it denotes: the day number since the epoch and the second of the   *)
(* day.  NaT and the empty text are <<>>.  (Timestamps past the year 9999, *)
(* which utcfromtimestamp rejects, are not among the inputs.)              *)
(***************************************************************************)
SecondsPerDay == 86400

\* datetime.utcfromtimestamp(int(ts)).strftime(...), or "" on any exception.
convert_unix_to_date(ts) ==
    IF IntParses(ts)
    THEN <<[day |-> IntOf(ts) \div SecondsPerDay, sec |-> IntOf(ts) % SecondsPerDay]>>
    ELSE <<>>

\* pd.to_datetime(text, errors="coerce", utc=True): seconds since the epoch.
to_datetime(text) ==
    IF text = <<>> THEN <<>> ELSE <<text[1].day * SecondsPerDay + text[1].sec>>

\* Timestamp.date(): the calendar day (UTC) of an instant.
DateOf(dt) == dt \div SecondsPerDay

\* pd.Timestamp(date).tz_localize("UTC"): midnight at the start of the day.
TimestampOfDate(date) == date * SecondsPerDay

\* Lines 174-180: the frame built from the parsed records.
RECURSIVE BuildFrame(_)
BuildFrame(recs) ==
    IF recs = <<>> THEN <<>>
    ELSE LET r == Head(recs)
             b == convert_unix_to_date(r.date_begin)
             e == convert_unix_to_date(r.date_end)
         IN  <<[reporting_domain |-> r.reporting_domain,
                report_id |-> r.report_id,
                date_begin |-> b,
                date_end |-> e,
                domain |-> r.domain,
                source_ip |-> r.source_ip,
                count |-> r.count,
                disposition |-> r.disposition,
                header_from |-> r.header_from,
                envelope_from |-> r.envelope_from,
                auth_dkim_domain |-> r.auth_dkim_domain,
                auth_spf_domain |-> r.auth_spf_domain,
                xml_path |-> r.xml_path,
                date_begin_dt |-> to_datetime(b),
                date_end_dt |-> to_datetime(e)]>> \o BuildFrame(Tail(recs))

(***************************************************************************)
(* The files of a run.  fs maps each path below extract_dir to the content *)
(* last written there.                                                     *)
(***************************************************************************)
WriteFile(files, p, c) ==
    [q \in (DOMAIN files) \cup {p} |-> IF q = p THEN c ELSE files[q]]

\* ZipFile.extractall: the entries written in order.
RECURSIVE ExtractAll(_, _)
ExtractAll(files, entries) ==
    IF entries = <<>> THEN files
    ELSE ExtractAll(WriteFile(files, Head(entries).name, Head(entries).data), Tail(entries))

\* Lines 164-166: the names of z.namelist() that end in .xml, in order.
RECURSIVE XmlNames(_)
XmlNames(entries) ==
    IF entries = <<>> THEN <<>>
    ELSE (IF EndsWith(Lower(Head(entries).name), ".xml")
          THEN <<Head(entries).name>> ELSE <<>>) \o XmlNames(Tail(entries))

\* os.path.join(extract_dir, f"msg{i}_{fname}"), relative to extract_dir.
MsgPath(i, fname) == "msg" \o ToString(i) \o "_" \o fname

EmptyFile == [t |-> "empty"]

\* Lines 171-172: records.extend(parse_dmarc_xml(p)) over xml_files.
RECURSIVE ParseFiles(_, _)
ParseFiles(paths, files) ==
    IF paths = <<>> THEN <<>>
    ELSE parse_dmarc_xml(Head(paths), files[Head(paths)]) \o ParseFiles(Tail(paths), files)

(***************************************************************************)
(* Provider inference.  PROVIDER_MAP in its insertion order, which is the  *)
(* order dict.items() iterates in.                                         *)
(***************************************************************************)
PROVIDER_MAP ==
    << [key |-> "sendgrid", name |-> "SendGrid"],
       [key |-> "amazonses.com", name |-> "Amazon SES"],
       [key |-> "salesforce.com", name |-> "Salesforce Marketing Cloud"],
       [key |-> "bnc.salesforce.com", name |-> "Salesforce Marketing Cloud"],
       [key |-> "front-mail", name |-> "Front"],
       [key |-> "onmicrosoft.com", name |-> "Microsoft 365 / Exchange Online"],
       [key |-> "outlook.com", name |-> "Microsoft Outlook"],
       [key |-> "gmail.com", name |-> "Gmail"],
       [key |-> "google.com", name |-> "Google Workspace"],
       [key |-> "comcast.net", name |-> "Comcast"],
       [key |-> "comcastmailservice.net", name |-> "Comcast"],
       [key |-> "activecampaign.com", name |-> "ActiveCampaign"],
       [key |-> "activehosted.com", name |-> "ActiveCampaign"],
       [key |-> "mailchimp.com", name |-> "Mailchimp"],
       [key |-> "yahoo.com", name |-> "Yahoo"] >>

\* Python's None in the provider column.
None == "<None>"

\* Lines 186-191: the candidates in their fixed order.
Candidates(r) == <<r.auth_dkim_domain, r.auth_spf_domain, r.envelope_from, r.header_from>>

\* Line 192: [domain_part(c) for c in candidates if c]
RECURSIVE CandDomainsOf(_)
CandDomainsOf(cs) ==
    IF cs = <<>> THEN <<>>
    ELSE (IF Head(cs) # "" THEN <<domain_part(Some(Head(cs)))>> ELSE <<>>)
         \o CandDomainsOf(Tail(cs))

cand_domains(r) == CandDomainsOf(Candidates(r))

\* Lines 195-197: the first table entry, from position k on, whose key is in
\* cd; 0 when there is none.
RECURSIVE FirstKey(_, _)
FirstKey(cd, k) ==
    IF k > Len(PROVIDER_MAP) THEN 0
    ELSE IF Contains(PROVIDER_MAP[k].key, cd) THEN k
    ELSE FirstKey(cd, k + 1)

\* Lines 194-197: candidates outermost, the table innermost.
RECURSIVE ScanCandidates(_, _)
ScanCandidates(cds, i) ==
    IF i > Len(cds) THEN <<>>
    ELSE LET k == FirstKey(cds[i], 1)
         IN  IF k # 0 THEN <<PROVIDER_MAP[k].name, cds[i]>>
             ELSE ScanCandidates(cds, i + 1)

\* The loops nested the other way round: the table outermost.
RECURSIVE ScanTableFirst(_, _)
ScanTableFirst(cds, k) ==
    IF k > Len(PROVIDER_MAP) THEN <<>>
    ELSE LET hits == {i \in 1..Len(cds) : Contains(PROVIDER_MAP[k].key, cds[i])}
         IN  IF hits # {} THEN <<PROVIDER_MAP[k].name, cds[Min(hits)]>>
             ELSE ScanTableFirst(cds, k + 1)

FingerprintMatchTableFirst(cds) == ScanTableFirst(cds, 1)

\* Lines 194-197: <<name, cd>> of the first match, <<>> when nothing matches.
FingerprintMatch(cds) == ScanCandidates(cds, 1)

\* Lines 199-201: the first candidate domain that is not the policy domain.
RECURSIVE FirstForeign(_, _, _)
FirstForeign(cds, own, i) ==
    IF i > Len(cds) THEN <<>>
    ELSE IF cds[i] # "" /\ cds[i] # own THEN <<cds[i]>>
    ELSE FirstForeign(cds, own, i + 1)

\* Lines 185-203: <<provider, matched_domain>>.
detect_provider_and_domain(r) ==
    LET cds == cand_domains(r)
        m == FingerprintMatch(cds)
        own == domain_part(Some(r.domain))
        f == FirstForeign(cds, own, 1)
    IN  IF m # <<>> THEN m
        ELSE IF f # <<>> THEN <<None, f[1]>>
        ELSE <<None, own>>

(***************************************************************************)
(* compute_provider_tables.                                                *)
(***************************************************************************)
TopN == 5

\* Code points, in order, of the characters that texts of the model use.
CharOrder ==
    "\t\n\r !+-./0123456789<>@ABCDEFGHIJKLMNOPQRSTUVWXYZ_abcdefghijklmnopqrstuvwxyz"

CharRank == [c \in {Char(CharOrder, i) : i \in 1..Len(CharOrder)} |->
                CHOOSE i \in 1..Len(CharOrder) : Char(CharOrder, i) = c]

\* a < b for Python str.
RECURSIVE StrLess(_, _)
StrLess(a, b) ==
    IF b = "" THEN FALSE
    ELSE IF a = "" THEN TRUE
    ELSE IF Char(a, 1) = Char(b, 1)
         THEN StrLess(SubSeq(a, 2, Len(a)), SubSeq(b, 2, Len(b)))
         ELSE CharRank[Char(a, 1)] < CharRank[Char(b, 1)]

\* Tuples of texts in lexicographic order (the keys of a groupby).
RECURSIVE KeyLess(_, _)
KeyLess(a, b) ==
    IF a = <<>> \/ b = <<>> THEN FALSE
    ELSE IF Head(a) = Head(b) THEN KeyLess(Tail(a), Tail(b))
    ELSE StrLess(Head(a), Head(b))

\* ["count"].sum()
RECURSIVE SumCount(_)
SumCount(rows) == IF rows = <<>> THEN 0 ELSE Head(rows).count + SumCount(Tail(rows))

Range(f) == {f[i] : i \in DOMAIN f}

\* .groupby(keys)["count"].sum() over rows that carry their group key: one
\* [key, count] per key.
GroupSum(keyed) ==
    {[key |-> k, count |-> SumCount(SelectSeq(keyed, LAMBDA r : r.key = k))] :
        k \in {r.key : r \in Range(keyed)}}

\* A group stands before another after .sort_values("count", ascending=False)
\* of the key-ordered groups.
Before(g, h) == g.count > h.count \/ (g.count = h.count /\ KeyLess(g.key, h.key))

\* .sort_values("count", ascending=False).head(5)
Ranking(groups) ==
    LET n == Cardinality(groups)
        sorted == [i \in 1..n |->
                     CHOOSE g \in groups : Cardinality({h \in groups : Before(h, g)}) = i - 1]
    IN  SubSeq(sorted, 1, IF n < TopN THEN n ELSE TopN)

\* Lines 209-211: the frame with the provider and matched_domain columns
\* (of the frame's other columns, those the tables read).
RECURSIVE Enrich(_)
Enrich(rows) ==
    IF rows = <<>> THEN <<>>
    ELSE LET d == detect_provider_and_domain(Head(rows))
         IN  <<[count |-> Head(rows).count,
                disposition |-> Head(rows).disposition,
                domain |-> Head(rows).domain,
                provider |-> d[1],
                matched_domain |-> d[2]]>> \o Enrich(Tail(rows))

\* Line 213
Failures(enr) == SelectSeq(enr, LAMBDA r : r.disposition # "none")

\* The policy domains as they stand in the column, not normalised.
OwnDomainsRaw(enr) == {r.domain : r \in Range(enr)}

\* Line 224
OwnDomains(enr) == {domain_part(Some(r.domain)) : r \in Range(enr)}

\* The rows with the key they are grouped by.
KeyedBy(rows, cols) ==
    [i \in 1..Len(rows) |->
        [key |-> [j \in 1..Len(cols) |->
                    IF cols[j] = "provider" THEN rows[i].provider ELSE rows[i].matched_domain],
         count |-> rows[i].count]]

\* Lines 215-222: rows are [key |-> <<provider, matched_domain>>, count].
KnownTable(enr) ==
    Ranking(GroupSum(KeyedBy(SelectSeq(Failures(enr), LAMBDA r : r.provider # None),
                             <<"provider", "matched_domain">>)))

\* Lines 225-233: rows are [key |-> <<domain>>, count].
UnknownTable(enr) ==
    LET own_domains == OwnDomains(enr)
    IN  Ranking(GroupSum(KeyedBy(SelectSeq(Failures(enr),
                                           LAMBDA r : r.provider = None
                                                      /\ r.matched_domain \notin own_domains),
                                 <<"matched_domain">>)))

(***************************************************************************)
(* The statistics of the filtered frame (lines 298-307).  A percentage is  *)
(* kept in tenths of a percent: 667 is 66.7.                               *)
(***************************************************************************)
\* Line 303
Passes(rows) == SumCount(SelectSeq(rows, LAMBDA r : r.disposition = "none"))

\* A fail predicate that names the failing dispositions.
FailsListed(rows) ==
    SumCount(SelectSeq(rows, LAMBDA r : r.disposition \in {"quarantine", "reject"}))

\* Line 304
Fails(rows) == SumCount(SelectSeq(rows, LAMBDA r : r.disposition # "none"))

\* Line 300
TotalRecords(rows) == SumCount(rows)

\* round(n / total * 100, 1) in tenths, for total # 0.  The quotient is a
\* binary floating-point number: where the exact quotient lies half way
\* between two tenths, the float lies on either side of it or on it, and tie
\* (0 or 1) is the way the rounding then goes.
Round1(n, total, tie) ==
    LET num == IF total < 0 THEN 0 - n ELSE n
        den == IF total < 0 THEN 0 - total ELSE total
        q == (num * 1000) \div den
        r == (num * 1000) % den
    IN  IF 2 * r < den THEN q ELSE IF 2 * r > den THEN q + 1 ELSE q + tie

\* Integer division where line 306 has true division.
PctFloorDiv(n, total, tie) == IF total # 0 THEN (n \div total) * 1000 ELSE 0

\* Lines 306-307: round(n / total_msgs * 100, 1) if total_msgs else 0.0
Pct(n, total, tie) == IF total # 0 THEN Round1(n, total, tie) ELSE 0

\* Lines 269-270: the dates of the least begin and of the greatest end; NaT
\* is skipped by min() and max().
BeginTimes(all) == {r.date_begin_dt[1] : r \in {x \in Range(all) : x.date_begin_dt # <<>>}}
EndTimes(all) == {r.date_end_dt[1] : r \in {x \in Range(all) : x.date_end_dt # <<>>}}
DefaultRange(all) ==
    [start |-> DateOf(Min(BeginTimes(all))), end |-> DateOf(Max(EndTimes(all)))]

\* Lines 292-296: the rows inside the active range; a comparison with NaT
\* is False.
FilterFrame(all, range) ==
    SelectSeq(all, LAMBDA r :
        /\ r.date_begin_dt # <<>> /\ r.date_end_dt # <<>>
        /\ r.date_begin_dt[1] >= TimestampOfDate(range.start)
        /\ r.date_end_dt[1] <= TimestampOfDate(range.end))

(***************************************************************************)
(* State.                                                                  *)
(*   mbox, mi, pj, fs, xml_files, records, df, xpc, scratch: one run of    *)
(*     parse_mbox_to_dataframe (mi, pj: the message and the part the walk  *)
(*     stands at; scratch: the temporary file and directory on disk).      *)
(*   doc, out, ppc: one call of parse_dmarc_xml.                           *)
(*   row, detected, cpc: one call of detect_provider_and_domain.           *)
(*   uploaded_file, active_range, df_all, apc: the session of the app:     *)
(*     the uploader's file, st.session_state.active_range (<<>> while the  *)
(*     key is not set), the frame of the last script run and where that    *)
(*     run ended.  applied records the range last applied since the       *)
(*     current file was uploaded (<<>>: none); the code keeps no such      *)
(*     thing.                                                              *)
(*   df_filtered and the statistics and tables computed from it.           *)
(***************************************************************************)
VARIABLES mbox, mi, pj, fs, xml_files, records, df, xpc, scratch,
          doc, out, ppc,
          row, detected, cpc,
          uploaded_file, active_range, df_all, apc, applied,
          df_filtered, total_reports, total_records, unique_ips,
          passes, fails, total_msgs, pass_pct, fail_pct, spc,
          enriched, known_providers, unknown_domains, tpc

xvars == <<mbox, mi, pj, fs, xml_files, records, df, xpc, scratch>>
pvars == <<doc, out, ppc>>
cvars == <<row, detected, cpc>>
avars == <<uploaded_file, active_range, df_all, apc, applied>>
stats == <<total_reports, total_records, unique_ips,
           passes, fails, total_msgs, pass_pct, fail_pct, spc>>
tables == <<enriched, known_providers, unknown_domains, tpc>>
vars == <<xvars, pvars, cvars, avars, df_filtered, stats, tables>>

NoFiles == [q \in {} |-> EmptyFile]
Junk == [t |-> "junk"]

XIdle ==
    /\ mbox = <<>> /\ mi = 1 /\ pj = 1 /\ fs = NoFiles /\ xml_files = <<>>
    /\ records = <<>> /\ df = <<>> /\ xpc = "idle" /\ scratch = {}

PIdle == doc = Junk /\ out = <<>> /\ ppc = "idle"

CIdle == row = <<>> /\ detected = <<>> /\ cpc = "idle"

AIdle ==
    /\ uploaded_file = <<>> /\ active_range = <<>> /\ df_all = <<>>
    /\ apc = "idle" /\ applied = <<>>

StatsIdle ==
    /\ total_reports = 0 /\ total_records = 0 /\ unique_ips = 0
    /\ passes = 0 /\ fails = 0 /\ total_msgs = 0
    /\ pass_pct = 0 /\ fail_pct = 0 /\ spc = "idle"

TablesIdle ==
    /\ enriched = <<>> /\ known_providers = <<>> /\ unknown_domains = <<>>
    /\ tpc = "idle"

SeqsUpTo(S, n) == UNION {[1..k -> S] : k \in 0..n}

(***************************************************************************)
(* Report documents and frame rows used as inputs.                         *)
(***************************************************************************)
RecordNode(count, disposition) ==
    [row |-> <<[source_ip |-> Some("192.0.2.1"),
                count |-> count,
                policy_evaluated |-> <<[disposition |-> Some(disposition)]>>]>>,
     identifiers |-> <<[header_from |-> Some("example.com"), envelope_from |-> <<>>]>>,
     auth_results |-> <<[dkim |-> <<[domain |-> Some("mail.sendgrid.net")]>>,
                         spf |-> <<>>]>>]

\* A record node without its row element.
BareNode == [row |-> <<>>, identifiers |-> <<>>, auth_results |-> <<>>]

Report(report_id, begin, end, nodes) ==
    [t |-> "xml",
     doc |-> [report_metadata |-> <<[org_name |-> Some("google.com"),
                                     report_id |-> Some(report_id),
                                     date_range |-> <<[begin |-> Some(begin),
                                                       end |-> Some(end)]>>]>>,
              policy_published |-> <<[domain |-> Some("example.com")]>>,
              records |-> nodes]]

FrameRow(report_id, domain, count, disposition, dkim, spf, envelope_from, header_from) ==
    [reporting_domain |-> "google.com",
     report_id |-> report_id,
     date_begin |-> convert_unix_to_date("0"),
     date_end |-> convert_unix_to_date("86399"),
     domain |-> domain,
     source_ip |-> "192.0.2.1",
     count |-> count,
     disposition |-> disposition,
     header_from |-> header_from,
     envelope_from |-> envelope_from,
     auth_dkim_domain |-> dkim,
     auth_spf_domain |-> spf,
     xml_path |-> "msg0_r.xml",
     date_begin_dt |-> to_datetime(convert_unix_to_date("0")),
     date_end_dt |-> to_datetime(convert_unix_to_date("86399"))]

(***************************************************************************)
(* One run of parse_mbox_to_dataframe.  A message is [multipart, parts],   *)
(* parts being what msg.walk() yields; a part is [fname, payload] with     *)
(* fname what get_filename() returns (<<>> for None) and payload what      *)
(* get_payload(decode=True) returns: [t |-> "none"] for None (a part that  *)
(* is itself multipart), and bytes otherwise: an XML document, a gzip      *)
(* stream of some bytes, a zip archive of named entries, or junk.          *)
(***************************************************************************)
ReportA == Report("A", "0", "86399", <<RecordNode(Some("10"), "none")>>)
ReportB == Report("B", "86400", "172799", <<RecordNode(Some("5"), "reject")>>)

NonePayload == [t |-> "none"]
Gz(inner) == [t |-> "gz", inner |-> inner]
Zip(entries) == [t |-> "zip", entries |-> entries]

Parts ==
    { [fname |-> Some("r.xml"), payload |-> ReportA],
      [fname |-> Some("r.xml"), payload |-> ReportB],
      [fname |-> Some("r.xml.GZ"), payload |-> Gz(ReportB)],
      [fname |-> Some("r.xml.GZ"), payload |-> Junk],
      [fname |-> Some("z.zip"),
       payload |-> Zip(<<[name |-> "r.xml", data |-> ReportB],
                         [name |-> "s.XML", data |-> ReportA],
                         [name |-> "readme.txt", data |-> Junk]>>)],
      [fname |-> Some("z.zip"), payload |-> Junk],
      [fname |-> Some("fwd.xml"), payload |-> NonePayload],
      [fname |-> <<>>, payload |-> Junk],
      [fname |-> Some("notes.txt"), payload |-> Junk] }

Messages ==
    {[multipart |-> FALSE, parts |-> <<>>]}
    \cup {[multipart |-> TRUE, parts |-> ps] : ps \in SeqsUpTo(Parts, MaxParts)}

XInit ==
    /\ mbox \in SeqsUpTo(Messages, MaxMsgs)
    /\ mi = 1 /\ pj = 1 /\ fs = NoFiles /\ xml_files = <<>>
    /\ records = <<>> /\ df = <<>> /\ xpc = "start" /\ scratch = {}

CurMsg == mbox[mi]
CurPart == CurMsg.parts[pj]
AtPart == xpc = "walk" /\ mi <= Len(mbox) /\ CurMsg.multipart /\ pj <= Len(CurMsg.parts)
HasName == CurPart.fname # <<>> /\ CurPart.fname[1] # ""
lf == Lower(CurPart.fname[1])

\* Lines 137, 143, 157: the if / elif chain on the lower-cased filename.
IsXmlName(l) == EndsWith(l, ".xml")
IsGzName(l) == ~IsXmlName(l) /\ (EndsWith(l, ".gz") \/ EndsWith(l, ".gzip"))
IsZipName(l) == ~IsXmlName(l) /\ ~IsGzName(l) /\ EndsWith(l, ".zip")

XOthers == <<pvars, cvars, avars, df_filtered, stats, tables>>

\* Lines 118-126: the temporary copy of the container and the extraction
\* directory are created.
Begin ==
    /\ xpc = "start"
    /\ scratch' = {"mbox_path", "extract_dir"}
    /\ xpc' = "walk"
    /\ UNCHANGED <<mbox, mi, pj, fs, xml_files, records, df, XOthers>>

\* Lines 128-129: a message that is not multipart is passed over.
SkipNotMultipart ==
    /\ xpc = "walk" /\ mi <= Len(mbox) /\ ~CurMsg.multipart
    /\ mi' = mi + 1 /\ pj' = 1
    /\ UNCHANGED <<mbox, fs, xml_files, records, df, xpc, scratch, XOthers>>

\* Line 130: msg.walk() is exhausted.
EndOfMessage ==
    /\ xpc = "walk" /\ mi <= Len(mbox) /\ CurMsg.multipart /\ pj > Len(CurMsg.parts)
    /\ mi' = mi + 1 /\ pj' = 1
    /\ UNCHANGED <<mbox, fs, xml_files, records, df, xpc, scratch, XOthers>>

\* Lines 131-133: a part without a filename.
SkipNoFilename ==
    /\ AtPart /\ ~HasName
    /\ pj' = pj + 1
    /\ UNCHANGED <<mbox, mi, fs, xml_files, records, df, xpc, scratch, XOthers>>

\* Lines 137, 143, 157: a filename with none of the three extensions.
SkipOtherExtension ==
    /\ AtPart /\ HasName
    /\ ~IsXmlName(lf) /\ ~IsGzName(lf) /\ ~IsZipName(lf)
    /\ pj' = pj + 1
    /\ UNCHANGED <<mbox, mi, fs, xml_files, records, df, xpc, scratch, XOthers>>

\* Lines 139-140, 145-146, 159-160 with a None payload: open() has created
\* (or emptied) the file and f.write(None) raises TypeError, which nothing
\* in the function catches.
WriteRaises(p) ==
    /\ fs' = WriteFile(fs, p, EmptyFile)
    /\ xpc' = "aborted"
    /\ UNCHANGED <<mbox, mi, pj, xml_files, records, df, scratch>>

\* Lines 137-141.
ExtractXml ==
    /\ AtPart /\ HasName /\ IsXmlName(lf)
    /\ LET p == MsgPath(mi - 1, CurPart.fname[1])
       IN  IF CurPart.payload = NonePayload
           THEN WriteRaises(p)
           ELSE /\ fs' = WriteFile(fs, p, CurPart.payload)
                /\ xml_files' = Append(xml_files, p)
                /\ pj' = pj + 1
                /\ UNCHANGED <<mbox, mi, records, df, xpc, scratch>>
    /\ UNCHANGED XOthers

\* Lines 143-155.
ExtractGz ==
    /\ AtPart /\ HasName /\ IsGzName(lf)
    /\ LET gz_path == MsgPath(mi - 1, CurPart.fname[1])
           outpath == RSplitLastFirst(gz_path, ".")
       IN  IF CurPart.payload = NonePayload
           THEN WriteRaises(gz_path)
           ELSE IF CurPart.payload.t = "gz"
           THEN /\ fs' = WriteFile(WriteFile(fs, gz_path, CurPart.payload),
                                   outpath, CurPart.payload.inner)
                /\ xml_files' = Append(xml_files, outpath)
                /\ pj' = pj + 1
                /\ UNCHANGED <<mbox, mi, records, df, xpc, scratch>>
           ELSE /\ fs' = WriteFile(fs, gz_path, CurPart.payload)
                /\ pj' = pj + 1
                /\ UNCHANGED <<mbox, mi, xml_files, records, df, xpc, scratch>>
    /\ UNCHANGED XOthers

\* Lines 157-168.
ExtractZip ==
    /\ AtPart /\ HasName /\ IsZipName(lf)
    /\ LET zp == MsgPath(mi - 1, CurPart.fname[1])
       IN  IF CurPart.payload = NonePayload
           THEN WriteRaises(zp)
           ELSE IF CurPart.payload.t = "zip"
           THEN /\ fs' = ExtractAll(WriteFile(fs, zp, CurPart.payload),
                                    CurPart.payload.entries)
                /\ xml_files' = xml_files \o XmlNames(CurPart.payload.entries)
                /\ pj' = pj + 1
                /\ UNCHANGED <<mbox, mi, records, df, xpc, scratch>>
           ELSE /\ fs' = WriteFile(fs, zp, CurPart.payload)
                /\ pj' = pj + 1
                /\ UNCHANGED <<mbox, mi, xml_files, records, df, xpc, scratch>>
    /\ UNCHANGED XOthers

\* Lines 170-180: every listed path is parsed and the frame is returned.
ParseAll ==
    /\ xpc = "walk" /\ mi > Len(mbox)
    /\ records' = ParseFiles(xml_files, fs)
    /\ df' = BuildFrame(records')
    /\ xpc' = "done"
    /\ UNCHANGED <<mbox, mi, pj, fs, xml_files, scratch, XOthers>>

XNext ==
    \/ Begin \/ SkipNotMultipart \/ EndOfMessage \/ SkipNoFilename
    \/ SkipOtherExtension \/ ExtractXml \/ ExtractGz \/ ExtractZip \/ ParseAll

InitExtract ==
    XInit /\ PIdle /\ CIdle /\ AIdle /\ df_filtered = <<>> /\ StatsIdle /\ TablesIdle

SpecExtract == InitExtract /\ [][XNext]_vars

(***************************************************************************)
(* One call of parse_dmarc_xml on a document drawn from ParseInputs.       *)
(***************************************************************************)
CountTexts == {<<>>, Some("7"), Some(" 12 "), Some("abc"), Some("")}

RecordNodes ==
    {RecordNode(c, d) : c \in CountTexts, d \in {"none", "reject"}} \cup {BareNode}

ParseInputs ==
    {Junk} \cup {Report("A", "0", "86399", ns) : ns \in SeqsUpTo(RecordNodes, MaxNodes)}

InitParse ==
    /\ doc \in ParseInputs /\ out = <<>> /\ ppc = "call"
    /\ XIdle /\ CIdle /\ AIdle /\ df_filtered = <<>> /\ StatsIdle /\ TablesIdle

\* Lines 60-115.
Parse ==
    /\ ppc = "call"
    /\ out' = parse_dmarc_xml("msg0_r.xml", doc)
    /\ ppc' = "done"
    /\ UNCHANGED <<doc, xvars, cvars, avars, df_filtered, stats, tables>>

SpecParse == InitParse /\ [][Parse]_vars

(***************************************************************************)
(* One call of detect_provider_and_domain on a row drawn from DetectRows.  *)
(***************************************************************************)
CandidateTexts ==
    {"", "mail.sendgrid.net", "bounce@x.Gmail.com", "sendgrid.yahoo.com",
     "a@b@amazonses.com", "Example.COM", "evil.net", "user@"}

DetectRows ==
    {FrameRow("A", pd, 1, "reject", dk, sp, ef, hf) :
        pd \in {"example.com", "Evil.NET"}, dk \in CandidateTexts, sp \in CandidateTexts,
        ef \in CandidateTexts, hf \in CandidateTexts}

InitDetect ==
    /\ row \in {<<r>> : r \in DetectRows} /\ detected = <<>> /\ cpc = "call"
    /\ XIdle /\ PIdle /\ AIdle /\ df_filtered = <<>> /\ StatsIdle /\ TablesIdle

\* Lines 185-203.
Detect ==
    /\ cpc = "call"
    /\ detected' = detect_provider_and_domain(row[1])
    /\ cpc' = "done"
    /\ UNCHANGED <<row, xvars, pvars, avars, df_filtered, stats, tables>>

SpecDetect == InitDetect /\ [][Detect]_vars

(***************************************************************************)
(* The statistics block on a filtered frame drawn from StatFrames.         *)
(***************************************************************************)
Dispositions == {"none", "quarantine", "reject", "", "None"}
CountValues == {0, 1, 5, 10, 15}

StatRows ==
    {FrameRow("A", "example.com", c, d, "", "", "", "example.com") :
        c \in CountValues, d \in Dispositions}

StatFrames == SeqsUpTo(StatRows, MaxRows)

\* Lines 298-307.
ComputeStats(rows) ==
    \E tp \in {0, 1}, tf \in {0, 1} :
        /\ total_reports' = Cardinality({r.report_id : r \in Range(rows)})
        /\ total_records' = TotalRecords(rows)
        /\ unique_ips' = Cardinality({r.source_ip : r \in Range(rows)})
        /\ passes' = Passes(rows)
        /\ fails' = Fails(rows)
        /\ total_msgs' = Passes(rows) + Fails(rows)
        /\ pass_pct' = Pct(Passes(rows), Passes(rows) + Fails(rows), tp)
        /\ fail_pct' = Pct(Fails(rows), Passes(rows) + Fails(rows), tf)
        /\ spc' = "computed"

InitStats ==
    /\ df_filtered \in StatFrames /\ StatsIdle
    /\ XIdle /\ PIdle /\ CIdle /\ AIdle /\ TablesIdle

StatsBlock ==
    /\ spc = "idle"
    /\ ComputeStats(df_filtered)
    /\ UNCHANGED <<df_filtered, xvars, pvars, cvars, avars, tables>>

SpecStats == InitStats /\ [][StatsBlock]_vars

(***************************************************************************)
(* compute_provider_tables on a filtered frame drawn from TableFrames.     *)
(***************************************************************************)
\* <<auth_dkim_domain, envelope_from, header_from>> of a row.
TableCandidates ==
    { <<"", "", "example.com">>,
      <<"", "bounce@Example.COM", "u@other.org">>,
      <<"", "", "evil.net">>,
      <<"mail.sendgrid.net", "", "example.com">> }

TableRows ==
    {FrameRow("A", pd, c, "reject", cs[1], "", cs[2], cs[3]) :
        pd \in {"Example.com", "other.org"}, c \in {2, 3}, cs \in TableCandidates}
    \cup {FrameRow("A", "Example.com", 2, "none", cs[1], "", cs[2], cs[3]) :
            cs \in TableCandidates}

TableFrames == SeqsUpTo(TableRows, MaxTableRows)

\* Lines 205-235.
ComputeTables(rows) ==
    LET enr == Enrich(rows)
    IN  /\ enriched' = enr
        /\ known_providers' = IF rows = <<>> THEN <<>> ELSE KnownTable(enr)
        /\ unknown_domains' = IF rows = <<>> THEN <<>> ELSE UnknownTable(enr)
        /\ tpc' = "computed"

InitTables ==
    /\ df_filtered \in TableFrames /\ TablesIdle
    /\ XIdle /\ PIdle /\ CIdle /\ AIdle /\ StatsIdle

TablesCall ==
    /\ tpc = "idle"
    /\ ComputeTables(df_filtered)
    /\ UNCHANGED <<df_filtered, xvars, pvars, cvars, avars, stats>>

SpecTables == InitTables /\ [][TablesCall]_vars

(***************************************************************************)
(* The app.  Every interaction runs the script from its top: the uploaded  *)
(* file is parsed, the default window is computed, the session's           *)
(* active_range is set where the code sets it, and the frame is filtered   *)
(* and summarised.  An uploaded file is given by the documents its         *)
(* extraction lists; files whose frame has rows but no parseable begin or  *)
(* no parseable end are left out (min() and max() of lines 269-270 have    *)
(* no date to give).                                                       *)
(***************************************************************************)
Node10 == <<RecordNode(Some("10"), "none")>>
Node5 == <<RecordNode(Some("5"), "reject")>>

AppReports ==
    { Report("A", "0", "86399", Node10),
      Report("B", "86400", "172799", Node5),
      Report("C", "0", "86400", Node5),
      Report("D", "soon", "86399", Node10),
      Report("E", "0", "86399", <<>>) }

\* Lines 170-180 on the documents of a file.
RECURSIVE RecordsOfDocs(_, _)
RecordsOfDocs(docs, k) ==
    IF k > Len(docs) THEN <<>>
    ELSE parse_dmarc_xml(MsgPath(k - 1, "r.xml"), docs[k]) \o RecordsOfDocs(docs, k + 1)

FrameOfDocs(docs) == BuildFrame(RecordsOfDocs(docs, 1))

Archives ==
    {a \in SeqsUpTo(AppReports, MaxDocs) :
        FrameOfDocs(a) = <<>>
        \/ (BeginTimes(FrameOfDocs(a)) # {} /\ EndTimes(FrameOfDocs(a)) # {})}

Days == 0..MaxDay

\* Nothing is rendered: the outputs of the run are empty.
NoOutputs ==
    /\ df_filtered' = <<>>
    /\ total_reports' = 0 /\ total_records' = 0 /\ unique_ips' = 0
    /\ passes' = 0 /\ fails' = 0 /\ total_msgs' = 0
    /\ pass_pct' = 0 /\ fail_pct' = 0 /\ spc' = "idle"
    /\ enriched' = <<>> /\ known_providers' = <<>> /\ unknown_domains' = <<>>
    /\ tpc' = "idle"

\* Lines 284-290: active_range after one run.
ActiveRangeAfter(current, default, apply_filter, clear_filter, start_input, end_input) ==
    LET initialised == IF current = <<>> THEN default ELSE current[1]
        afterApply == IF apply_filter
                      THEN [start |-> start_input, end |-> end_input] ELSE initialised
    IN  IF clear_filter THEN default ELSE afterApply

\* Lines 259-375: one run of the script on the uploaded file.
RunScript(file, apply_filter, clear_filter, start_input, end_input) ==
    LET all == FrameOfDocs(file)
    IN  IF all = <<>>
        THEN /\ df_all' = <<>>
             /\ apc' = "nodata"
             /\ UNCHANGED active_range
             /\ NoOutputs
        ELSE LET range == ActiveRangeAfter(active_range, DefaultRange(all), apply_filter,
                                           clear_filter, start_input, end_input)
                 filtered == FilterFrame(all, range)
             IN  /\ df_all' = all
                 /\ active_range' = <<range>>
                 /\ df_filtered' = filtered
                 /\ ComputeStats(filtered)
                 /\ ComputeTables(filtered)
                 /\ apc' = "rendered"

InitApp ==
    /\ AIdle /\ df_filtered = <<>> /\ StatsIdle /\ TablesIdle
    /\ XIdle /\ PIdle /\ CIdle

\* Line 257: a file is dropped on the uploader.
Upload ==
    \E a \in Archives :
        /\ uploaded_file' = <<a>>
        /\ applied' = <<>>
        /\ RunScript(a, FALSE, FALSE, 0, 0)
        /\ UNCHANGED <<xvars, pvars, cvars>>

\* Line 257: the file is taken away; the script has nothing to run on.
RemoveFile ==
    /\ uploaded_file # <<>>
    /\ uploaded_file' = <<>>
    /\ applied' = <<>>
    /\ df_all' = <<>>
    /\ apc' = "idle"
    /\ NoOutputs
    /\ UNCHANGED <<active_range, xvars, pvars, cvars>>

\* Lines 274-288: Apply Filter is pressed with the two dates the inputs hold.
ClickApply ==
    \E s \in Days, e \in Days :
        /\ apc = "rendered"
        /\ applied' = <<[start |-> s, end |-> e]>>
        /\ RunScript(uploaded_file[1], TRUE, FALSE, s, e)
        /\ UNCHANGED <<uploaded_file, xvars, pvars, cvars>>

\* Lines 282-290: Clear Filter is pressed.
ClickClear ==
    /\ apc = "rendered"
    /\ RunScript(uploaded_file[1], FALSE, TRUE, 0, 0)
    /\ UNCHANGED <<uploaded_file, applied, xvars, pvars, cvars>>

Next == Upload \/ RemoveFile \/ ClickApply \/ ClickClear

Spec == InitApp /\ [][Next]_vars

(***************************************************************************)
(* The properties.                                                         *)
(***************************************************************************)

\* The documents a part holds, as <<[path, data]>> in the order they are
\* extracted: the document of an .xml part, the decompressed stream of a
\* .gz/.gzip part, the .xml entries of a .zip part; none for a part whose
\* payload is not what its extension says.
EntryDocs(entries) ==
    [k \in 1..Len(SelectSeq(entries, LAMBDA e : EndsWith(Lower(e.name), ".xml"))) |->
        LET e == SelectSeq(entries, LAMBDA x : EndsWith(Lower(x.name), ".xml"))[k]
        IN  [path |-> e.name, data |-> e.data]]

PartDocs(i, part) ==
    IF part.fname = <<>> \/ part.fname[1] = "" \/ part.payload = NonePayload THEN <<>>
    ELSE LET l == Lower(part.fname[1])
             p == MsgPath(i, part.fname[1])
         IN  IF IsXmlName(l) THEN <<[path |-> p, data |-> part.payload]>>
             ELSE IF IsGzName(l) /\ part.payload.t = "gz"
                  THEN <<[path |-> RSplitLastFirst(p, "."), data |-> part.payload.inner]>>
             ELSE IF IsZipName(l) /\ part.payload.t = "zip"
                  THEN EntryDocs(part.payload.entries)
             ELSE <<>>

RECURSIVE PartsDocs(_, _, _)
PartsDocs(i, parts, j) ==
    IF j > Len(parts) THEN <<>>
    ELSE PartDocs(i, parts[j]) \o PartsDocs(i, parts, j + 1)

RECURSIVE ExpectedDocs(_, _)
ExpectedDocs(box, m) ==
    IF m > Len(box) THEN <<>>
    ELSE (IF box[m].multipart THEN PartsDocs(m - 1, box[m].parts, 1) ELSE <<>>)
         \o ExpectedDocs(box, m + 1)

\* C1: no attachment makes the run abort, and a finished run lists the
\* documents of every well-formed attachment, by message and then by part.
C1_FailuresAbsorbed ==
    /\ xpc # "aborted"
    /\ xpc = "done" =>
         xml_files = [k \in 1..Len(ExpectedDocs(mbox, 1)) |-> ExpectedDocs(mbox, 1)[k].path]

\* C2: a document with N record nodes gives N records, each with the
\* document's report_id, and a record node whose count is absent or not an
\* integer gives a record with count 0; a document that does not parse gives
\* no record.
C2_OneRecordPerNode ==
    ppc = "done" =>
        IF doc.t # "xml" THEN out = <<>>
        ELSE /\ Len(out) = Len(doc.doc.records)
             /\ \A k \in 1..Len(out) :
                  /\ out[k].report_id = "A"
                  /\ LET r == doc.doc.records[k].row
                     IN  (r = <<>> \/ r[1].count = <<>> \/ ~IntParses(safe_txt(r[1].count)))
                             => out[k].count = 0

\* C3: once a run is over, completed or failed, nothing of its scratch
\* storage is left.
C3_ScratchRemoved ==
    xpc \in {"done", "aborted"} => scratch = {} /\ DOMAIN fs = {}

\* The sum of the counts of the rows at the positions I.
RECURSIVE VolumeAt(_, _)
VolumeAt(rows, I) ==
    IF I = {} THEN 0
    ELSE LET i == CHOOSE x \in I : TRUE
         IN  rows[i].count + VolumeAt(rows, I \ {i})

\* C4: passes is the volume of the rows whose disposition is exactly "none",
\* fails the volume of all the other rows, and the two add up to the total
\* volume, which is the sum of the counts and not the number of rows.
C4_PassFailPartition ==
    spc = "computed" =>
        LET all == 1..Len(df_filtered)
            pass == {i \in all : df_filtered[i].disposition = "none"}
        IN  /\ passes = VolumeAt(df_filtered, pass)
            /\ fails = VolumeAt(df_filtered, all \ pass)
            /\ total_records = VolumeAt(df_filtered, all)
            /\ passes + fails = total_records

\* A frame with a passing row and a row of empty or unrecognised
\* disposition, both of positive count, has been summarised, and its volume
\* is not its number of rows.
C4_Witness ==
    /\ spc = "computed"
    /\ \E i, j \in 1..Len(df_filtered) :
         /\ df_filtered[i].disposition = "none" /\ df_filtered[i].count > 0
         /\ df_filtered[j].disposition \in {"", "None"} /\ df_filtered[j].count > 0
    /\ total_records # Len(df_filtered)
    /\ fails > 0 /\ passes > 0

\* C5: for non-negative volumes, the two percentages (in tenths of a
\* percent) add up to 100.0 within 0.1 when there is any volume, and both
\* are 0.0 when there is none.
C5_PercentagesSum ==
    (spc = "computed" /\ passes >= 0 /\ fails >= 0) =>
        IF passes + fails > 0
        THEN /\ pass_pct + fail_pct >= 1000 - 1
             /\ pass_pct + fail_pct <= 1000 + 1
        ELSE pass_pct = 0 /\ fail_pct = 0

\* 10 passes and 5 fails have been summarised as 66.7 and 33.3.
C5_Witness ==
    /\ spc = "computed"
    /\ passes = 10 /\ fails = 5
    /\ pass_pct = 667 /\ fail_pct = 333

\* A row lies in a window of calendar dates, both ends included.
CalendarKeeps(r, range) ==
    /\ r.date_begin_dt # <<>> /\ r.date_end_dt # <<>>
    /\ DateOf(r.date_begin_dt[1]) >= range.start
    /\ DateOf(r.date_end_dt[1]) <= range.end

\* C6: the filtered frame holds exactly the rows that begin on or after the
\* start date and end on or before the end date; under the default window
\* it holds every row whose timestamps parse.
C6_InclusiveDates ==
    apc = "rendered" =>
        /\ df_filtered = SelectSeq(df_all, LAMBDA r : CalendarKeeps(r, active_range[1]))
        /\ active_range[1] = DefaultRange(df_all) =>
             df_filtered = SelectSeq(df_all, LAMBDA r : /\ r.date_begin_dt # <<>>
                                                        /\ r.date_end_dt # <<>>)

\* The four candidates of a row, normalised, in their fixed order.
NormCandidates(r) == [i \in 1..4 |-> domain_part(Some(Candidates(r)[i]))]

\* The (candidate, fingerprint) pairs of a row where the fingerprint is a
\* substring of the non-empty candidate domain.
Hits(r) ==
    LET c == NormCandidates(r)
    IN  {h \in (1..4) \X (1..Len(PROVIDER_MAP)) :
            c[h[1]] # "" /\ Contains(PROVIDER_MAP[h[2]].key, c[h[1]])}

\* h comes before g: an earlier candidate, or the same candidate and an
\* earlier fingerprint.
PairBefore(h, g) == h[1] < g[1] \/ (h[1] = g[1] /\ h[2] <= g[2])

\* C7: when some fingerprint is a substring of some candidate domain, the
\* result is the provider and the candidate domain of the first such pair,
\* candidates in their fixed order outermost and the table in its order
\* innermost.
C7_FirstPairWins ==
    cpc = "done" =>
        LET hits == Hits(row[1])
        IN  hits # {} =>
                \E h \in hits :
                    /\ \A g \in hits : PairBefore(h, g)
                    /\ detected = <<PROVIDER_MAP[h[2]].name, NormCandidates(row[1])[h[1]]>>

\* A row has been classified whose first candidate matches a late
\* fingerprint and whose second candidate matches the first fingerprint.
C7_Witness ==
    /\ cpc = "done"
    /\ row[1].auth_dkim_domain = "bounce@x.Gmail.com"
    /\ row[1].auth_spf_domain = "mail.sendgrid.net"
    /\ detected = <<"Gmail", "x.gmail.com">>

\* Row i of the frame fails, matches no fingerprint, and has no candidate
\* domain other than its own policy domain (domains compared in their
\* normalised form, as domain_part gives them).
SelfOnly(rows, i) ==
    /\ rows[i].disposition # "none"
    /\ Hits(rows[i]) = {}
    /\ \A c \in 1..4 : NormCandidates(rows[i])[c] \in {"", domain_part(Some(rows[i].domain))}

C9_OwnPathPerDocument ==
    xpc = "done" =>
        /\ \A j, k \in 1..Len(xml_files) : j # k => xml_files[j] # xml_files[k]
        /\ Len(xml_files) = Len(ExpectedDocs(mbox, 1))
        /\ \A k \in 1..Len(xml_files) : fs[xml_files[k]] = ExpectedDocs(mbox, 1)[k].data

\* C10: the range that filters the current file's rows is the range last
\* applied to that file or the file's default window.
C10_RangeOfCurrentArchive ==
    apc = "rendered" =>
        active_range[1] \in {DefaultRange(df_all)} \cup Range(applied)

=============================================================================
